---- MODULE Spec2Model ----
(***************************************************************************)
(* Model of the OCFL entity walk of the file driver (scope.walk and its    *)
(* helpers) and of resolv.EntityRef.                                       *)
(*                                                                         *)
(* Physical addresses and logical identifiers are sequences of path        *)
(* segments; the empty sequence is Go's empty string.  A Go pointer that   *)
(* may be nil (EntityRef.Parent) is a sequence of length 0 or 1.           *)
(***************************************************************************)
EXTENDS Integers, Sequences, FiniteSets

\* ------------------------------------------------------------------ bounds

\* Number of version identifiers (and of logical file paths) in use.
MaxVersions == 2

VersionNames == <<"v1", "v2", "v3", "v4">>

FileNames == <<"p", "q", "s", "t">>

VersionIDs == {<<VersionNames[i]>> : i \in 1..MaxVersions}

LogicalPaths == {<<FileNames[i]>> : i \in 1..MaxVersions}

\* ------------------------------------------------------------------ ocfl.Type
\* The walk only compares types.  The comparisons of scope.walk pin the order
\* File, Version < Object <= Intermediate, Root ("underneath an OCFL object"
\* is Type < Object), and Any sits below File so that a walk for Any descends
\* into versions and files.

Any == 0

File == 1

Version == 2

Object == 3

Intermediate == 4

Root == 5

Types == {Any, File, Version, Object, Intermediate, Root}

\* ------------------------------------------------------------------ resolv.EntityRef

EntityRef(id, addr, type, parent) ==
    [ID |-> id, Addr |-> addr, Type |-> type, Parent |-> parent]

\* EntityRef.Coords: the IDs from the entity up to (excluding) the first
\* Root-typed entity or the end of the chain, in root-to-leaf order.
RECURSIVE Coords(_)
Coords(e) ==
    IF e.Type = Root THEN <<>>
    ELSE IF e.Parent = <<>> THEN <<e.ID>>
    ELSE Coords(e.Parent[1]) \o <<e.ID>>

\* ------------------------------------------------------------------ errors
\* An error value is its cause and the messages wrapped around it, outermost
\* first.  NilErr is Go's nil error.

Err(kind, a, b) == [kind |-> kind, a |-> a, b |-> b, wraps |-> <<>>]

NilErr == Err("nil", <<>>, <<>>)

Wrap(err, msg) == [err EXCEPT !.wraps = <<msg>> \o @]

\* The error the caller's callback returns when it fails.
CallbackErr == Err("callback", <<>>, <<>>)

\* ------------------------------------------------------------------ storage

RootAddr == <<"r">>

NodeA == <<"r", "a">>

NodeC == <<"r", "a", "c">>

NodeB == <<"r", "b">>

Nodes == {RootAddr, NodeA, NodeC, NodeB}

IsPrefix(pre, s) == Len(pre) <= Len(s) /\ SubSeq(s, 1, Len(pre)) = pre

Children(n) == {m \in Nodes : Len(m) = Len(n) + 1 /\ IsPrefix(n, m)}

ObjectIDOf(n) ==
    CASE n = NodeA -> <<"A">>
      [] n = NodeB -> <<"B">>
      [] n = NodeC -> <<"C">>
      [] OTHER -> <<>>

\* metadata.Inventory: the object id, the version ids, the file listing of
\* each version, and the versions whose listing cannot be produced.
FileEntry(j) ==
    [LogicalPath |-> <<FileNames[j]>>,
     PhysicalPath |-> <<VersionNames[j], "content", FileNames[j]>>]

Listing(i) == [j \in 1..i |-> FileEntry(j)]

Inventory(id, k, bad) ==
    [ID |-> id,
     Versions |-> {<<VersionNames[i]>> : i \in 1..k},
     files |-> [v \in VersionIDs |->
                  LET i == CHOOSE i \in 1..MaxVersions : v = <<VersionNames[i]>>
                  IN IF i <= k THEN Listing(i) ELSE <<>>],
     bad |-> bad]

Full(id, k) == Inventory(id, k, {})

Broken(id, k) == Inventory(id, k, {<<VersionNames[k]>>})

NoInventory == Inventory(<<>>, 0, {})

InvChoices(n) ==
    CASE n = NodeA -> {Full(ObjectIDOf(n), k) : k \in 1..MaxVersions}
                        \cup {Broken(ObjectIDOf(n), MaxVersions)}
      [] n = NodeB -> {Full(ObjectIDOf(n), k) : k \in 1..MaxVersions}
      [] n = NodeC -> {Full(ObjectIDOf(n), MaxVersions)}
      [] OTHER -> {NoInventory}

KindChoices(n) ==
    CASE n = RootAddr -> {"dir"}
      [] n = NodeA -> {"dir", "obj"}
      [] n = NodeC -> {"dir", "obj"}
      [] n = NodeB -> {"obj", "file"}

Disks ==
    {d \in [kind : [Nodes -> {"dir", "obj", "file"}],
            inv : [Nodes -> UNION {InvChoices(n) : n \in Nodes}]] :
        \A n \in Nodes :
            /\ d.kind[n] \in KindChoices(n)
            /\ d.inv[n] \in (IF d.kind[n] = "obj" THEN InvChoices(n) ELSE {NoInventory})}

\* ------------------------------------------------------------------ entry points

RootRef == EntityRef(<<>>, RootAddr, Root, <<>>)

TrimPrefix(s, pre) == IF IsPrefix(pre, s) THEN SubSeq(s, Len(pre) + 1, Len(s)) ELSE s

\* filepath.Join: an empty element is ignored.
Join(a, b) == a \o b

\* A directory that directory descent from the root can reach: every
\* directory above it is a plain directory.
Reachable(d, n) ==
    \A m \in Nodes : (IsPrefix(m, n) /\ m # n) => d.kind[m] = "dir"

IntermediateRefs(d) ==
    {EntityRef(TrimPrefix(n, RootAddr), n, Intermediate, <<RootRef>>) :
        n \in {m \in Nodes \ {RootAddr} : d.kind[m] = "dir" /\ Reachable(d, m)}}

\* An object named by its physical address, or by its identifier alone
\* (empty Addr).
ObjectRefs(d) ==
    UNION {{EntityRef(d.inv[n].ID, n, Object, <<RootRef>>),
            EntityRef(d.inv[n].ID, <<>>, Object, <<RootRef>>)} :
        n \in {m \in Nodes : d.kind[m] = "obj" /\ Reachable(d, m)}}

\* A version of an object; the identifier need not be in the manifest.
VersionRefs(d) ==
    {EntityRef(v, IF o.Addr = <<>> THEN <<>> ELSE Join(o.Addr, v), Version, <<o>>) :
        o \in ObjectRefs(d), v \in VersionIDs}

\* A file of a version; the logical path need not be in the listing.
FileRefs(d) ==
    {EntityRef(l, <<>>, File, <<v>>) : v \in VersionRefs(d), l \in LogicalPaths}

Entries(d) ==
    {RootRef} \cup IntermediateRefs(d) \cup ObjectRefs(d)
        \cup VersionRefs(d) \cup FileRefs(d)

\* ------------------------------------------------------------------ scope

\* findRoot: the nearest entity of type t on the Parent chain of ref,
\* ref included; the empty sequence when there is none.
RECURSIVE findRoot(_, _)
findRoot(ref, t) ==
    IF ref.Type = t THEN <<ref>>
    ELSE IF ref.Parent = <<>> THEN <<>>
    ELSE findRoot(ref.Parent[1], t)

newScope(under, t) ==
    [root |-> findRoot(under, Root)[1],
     startFrom |-> under,
     desired |-> IF under.Type = t THEN under ELSE EntityRef(<<>>, <<>>, t, <<>>)]

\* The loop of scope.contains: IDs are equal at every level at which both
\* chains still have a parent.
RECURSIVE SameCoords(_, _)
SameCoords(a, b) ==
    IF a.Parent = <<>> \/ b.Parent = <<>> THEN TRUE
    ELSE IF a.ID # b.ID THEN FALSE
    ELSE SameCoords(a.Parent[1], b.Parent[1])

\* contains without the wildcard case.
contains_NoWildcard(s, r) ==
    IF r.Type # s.startFrom.Type THEN s.desired.Type = r.Type
    ELSE SameCoords(s.desired, r) /\ r.Type <= s.desired.Type

\* contains with a strict final comparison.
contains_StrictDepth(s, r) ==
    IF s.desired.Type = Any THEN TRUE
    ELSE IF r.Type # s.startFrom.Type THEN s.desired.Type = r.Type
    ELSE SameCoords(s.desired, r) /\ r.Type < s.desired.Type

contains(s, r) ==
    IF s.desired.Type = Any THEN TRUE
    ELSE IF r.Type # s.startFrom.Type THEN s.desired.Type = r.Type
    ELSE SameCoords(s.desired, r) /\ r.Type <= s.desired.Type

\* ------------------------------------------------------------------ events
\* The log of what a walk did: callback invocations ("cb", with the entity
\* passed and whether the callback returned an error), directory entries
\* handed to the visitor ("visit"), object probes ("probe"), manifest loads
\* ("load"), file listings fetched ("list") and directories read ("readdir").

Ev(kind, path, ent, failed) ==
    [kind |-> kind, path |-> path, ent |-> ent, failed |-> failed]

CbEv(e) == Ev("cb", e.Addr, <<e>>, FALSE)

\* The positions of the callback invocations in a log.
CbIndexes(ev) == {i \in 1..Len(ev) : ev[i].kind = "cb"}

\* ------------------------------------------------------------------ manifest descent

RECURSIVE Perms(_)
Perms(S) ==
    IF S = {} THEN {<<>>}
    ELSE UNION {{<<x>> \o q : q \in Perms(S \ {x})} : x \in S}

\* Inventory.Files(vID): the listing and whether an error came with it.
Files(inv, vID) ==
    IF vID \in inv.Versions /\ vID \notin inv.bad
    THEN [files |-> inv.files[vID], err |-> FALSE]
    ELSE [files |-> <<>>, err |-> TRUE]

Narrowed(s) == s.startFrom.Type = Version \/ s.startFrom.Type = File

scopeVersion(s) == findRoot(s.startFrom, Version)[1]

\* The versions the loop of walkVersions ranges over.
VersionSet(s, inv) == IF Narrowed(s) THEN {scopeVersion(s).ID} ELSE inv.Versions

\* The inner loop of walkVersions: one callback per in-scope file, in
\* listing order.
FileEvents(s, object, version, files) ==
    LET refs == [i \in 1..Len(files) |->
                    EntityRef(files[i].LogicalPath,
                              Join(object.Addr, files[i].PhysicalPath),
                              File, <<version>>)]
        kept == SelectSeq(refs, LAMBDA r : contains(s, r))
    IN [i \in 1..Len(kept) |-> CbEv(kept[i])]

\* The loop body with the version linked to the storage root, not to its
\* object.
VersionEvents_ParentRoot(s, inv, object, vID) ==
    LET version == EntityRef(vID, Join(object.Addr, vID), Version, <<s.root>>)
        fl == Files(inv, vID)
    IN (IF contains(s, version) THEN <<CbEv(version)>> ELSE <<>>)
       \o (IF s.desired.Type <= File
           THEN <<Ev("list", version.Addr, <<>>, fl.err)>>
                \o FileEvents(s, object, version, fl.files)
           ELSE <<>>)

\* The loop body reporting the files of the version before the version.
VersionEvents_FilesFirst(s, inv, object, vID) ==
    LET version == EntityRef(vID, Join(object.Addr, vID), Version, <<object>>)
        fl == Files(inv, vID)
    IN (IF s.desired.Type <= File
        THEN <<Ev("list", version.Addr, <<>>, fl.err)>>
             \o FileEvents(s, object, version, fl.files)
        ELSE <<>>)
       \o (IF contains(s, version) THEN <<CbEv(version)>> ELSE <<>>)

\* One iteration of the loop of walkVersions.
VersionEvents(s, inv, object, vID) ==
    LET version == EntityRef(vID, Join(object.Addr, vID), Version, <<object>>)
        fl == Files(inv, vID)
    IN (IF contains(s, version) THEN <<CbEv(version)>> ELSE <<>>)
       \o (IF s.desired.Type <= File
           THEN <<Ev("list", version.Addr, <<>>, fl.err)>>
                \o FileEvents(s, object, version, fl.files)
           ELSE <<>>)

RECURSIVE AllVersionEvents(_, _, _, _)
AllVersionEvents(s, inv, object, vorder) ==
    IF vorder = <<>> THEN <<>>
    ELSE VersionEvents(s, inv, object, Head(vorder))
         \o AllVersionEvents(s, inv, object, Tail(vorder))

\* scope.walkVersions with a callback that never fails; vorder is the order
\* in which the map of versions is ranged over.
walkVersions(s, inv, object, vorder) ==
    IF Narrowed(s) /\ scopeVersion(s).ID \notin inv.Versions
    THEN [ev |-> <<>>, err |-> Err("NoVersion", scopeVersion(s).ID, object.ID)]
    ELSE [ev |-> AllVersionEvents(s, inv, object, vorder), err |-> NilErr]

\* walkObject descending only for types strictly below Version.
walkObject_StrictVersion(s, path, inv, loadFails, vorder) ==
    IF loadFails
    THEN [ev |-> <<Ev("load", path, <<>>, TRUE)>>, err |-> Err("load", path, <<>>)]
    ELSE LET object == EntityRef(inv.ID, path, Object, <<s.root>>)
             wv == IF s.desired.Type < Version
                   THEN walkVersions(s, inv, object, vorder)
                   ELSE [ev |-> <<>>, err |-> NilErr]
         IN [ev |-> <<Ev("load", path, <<>>, FALSE)>>
                    \o (IF contains(s, object) THEN <<CbEv(object)>> ELSE <<>>)
                    \o wv.ev,
             err |-> wv.err]

\* scope.walkObject with a callback that never fails.
walkObject(s, path, inv, loadFails, vorder) ==
    IF loadFails
    THEN [ev |-> <<Ev("load", path, <<>>, TRUE)>>, err |-> Err("load", path, <<>>)]
    ELSE LET object == EntityRef(inv.ID, path, Object, <<s.root>>)
             wv == IF s.desired.Type <= Version
                   THEN walkVersions(s, inv, object, vorder)
                   ELSE [ev |-> <<>>, err |-> NilErr]
         IN [ev |-> <<Ev("load", path, <<>>, FALSE)>>
                    \o (IF contains(s, object) THEN <<CbEv(object)>> ELSE <<>>)
                    \o wv.ev,
             err |-> wv.err]

\* The error of the callback is dropped and the run goes on.
FailAt_Ignored(run, i) ==
    IF i = 0 THEN run
    ELSE [ev |-> [run.ev EXCEPT ![i].failed = TRUE], err |-> run.err]

\* The callback returns an error at invocation i of the run (0: never):
\* the run ends there with that error (if err != nil { return err }).
FailAt(run, i) ==
    IF i = 0 THEN run
    ELSE [ev |-> SubSeq(run.ev, 1, i - 1) \o <<[run.ev[i] EXCEPT !.failed = TRUE]>>,
          err |-> CallbackErr]

\* ------------------------------------------------------------------ the walk

\* The walk: the storage, the scope, the position of the walk, the
\* directory entries pending, the log and the error returned.
\* resolv.Init: the configuration, cxt.root, the position of Init, the index
\* of the next driver, what Init returned and the drivers invoked.
VARIABLES disk, scope, pc, stack, events, result,
          cfg, cxtRoot, ipc, idx, returned, invoked

vars == <<disk, scope, pc, stack, events, result,
          cfg, cxtRoot, ipc, idx, returned, invoked>>

cxtVars == <<cfg, cxtRoot, ipc, idx, returned, invoked>>

walkVars == <<disk, scope, pc, stack, events, result>>

\* Init has not been called.
NoCxt ==
    /\ cfg = [Root |-> <<>>, Drivers |-> <<>>]
    /\ cxtRoot = <<>>
    /\ ipc = "idle"
    /\ idx = 1
    /\ returned = [cxt |-> FALSE, err |-> NilErr]
    /\ invoked = <<>>

Init ==
    \E d \in Disks :
        \E under \in Entries(d), t \in Types :
            /\ disk = d
            /\ scope = newScope(under, t)
            /\ pc = "start"
            /\ stack = <<>>
            /\ events = <<>>
            /\ result = NilErr
            /\ NoCxt

\* walk returns err.
Return(ev, err) ==
    /\ events' = ev
    /\ result' = err
    /\ pc' = "done"
    /\ stack' = <<>>
    /\ UNCHANGED <<cxtVars, disk, scope>>

RECURSIVE Strip(_)
Strip(st) ==
    IF st = <<>> THEN st
    ELSE IF st[Len(st)] = {} THEN Strip(SubSeq(st, 1, Len(st) - 1))
    ELSE st

\* The directory walk goes on with the entries still pending; when none is
\* left it returns nil and so does walk.
Continue(st, ev) ==
    IF Strip(st) = <<>>
    THEN Return(ev, NilErr)
    ELSE /\ events' = ev
         /\ stack' = Strip(st)
         /\ UNCHANGED <<cxtVars, disk, scope, pc, result>>

\* Halt returning a new error in place of the visitor's.
Halt_LosesCause(ev, err) ==
    Return(ev, Wrap(Err("walk", <<>>, <<>>), "error performing walk"))

\* The visitor returned err: fsWalk wraps it, the error callback answers
\* Halt, and walk wraps what the directory walk returns.
Halt(ev, err) ==
    Return(ev, Wrap(Wrap(err, "terminating walk due to error"), "error performing walk"))

\* scope.walk up to the call of the directory walk.
WalkStart ==
    /\ pc = "start"
    /\ LET node == IF scope.startFrom.Type < Object
                   THEN findRoot(scope.startFrom, Object)[1]
                   ELSE scope.startFrom
           rootRun == [ev |-> IF node.Type = Root /\ contains(scope, node)
                              THEN <<CbEv(node)>> ELSE <<>>,
                       err |-> NilErr]
           startPath == IF node.Addr = <<>> THEN scope.root.Addr ELSE node.Addr
       IN \/ \E i \in CbIndexes(rootRun.ev) :
                Return(FailAt(rootRun, i).ev, FailAt(rootRun, i).err)
          \/ Return(rootRun.ev \o <<Ev("stat", startPath, <<>>, TRUE)>>,
                    Wrap(Wrap(Err("stat", startPath, <<>>), "error walking directory"),
                         "error performing walk"))
          \/ /\ events' = rootRun.ev \o <<Ev("stat", startPath, <<>>, FALSE)>>
             /\ stack' = <<{startPath}>>
             /\ pc' = "fswalk"
             /\ UNCHANGED <<cxtVars, disk, scope, result>>

Pending == IF stack = <<>> THEN {} ELSE stack[Len(stack)]

Without(p) == [stack EXCEPT ![Len(stack)] = @ \ {p}]

Visited(p) == events \o <<Ev("visit", p, <<>>, FALSE)>>

\* The visitor on a regular file: terminal, no error.
VisitFile ==
    /\ pc = "fswalk"
    /\ \E p \in Pending :
        /\ disk.kind[p] = "file"
        /\ Continue(Without(p), Visited(p))

\* The visitor on a directory whose object probe returns an error.
VisitProbeFails ==
    /\ pc = "fswalk"
    /\ \E p \in Pending :
        /\ disk.kind[p] # "file"
        /\ Halt(Visited(p) \o <<Ev("probe", p, <<>>, TRUE)>>, Err("probe", p, <<>>))

\* The visitor on an object root answering "go deeper".
VisitObject_Descends ==
    /\ pc = "fswalk"
    /\ \E p \in Pending :
        /\ disk.kind[p] = "obj"
        /\ \E loadFails \in BOOLEAN, vorder \in Perms(VersionSet(scope, disk.inv[p])) :
            LET run == walkObject(scope, p, disk.inv[p], loadFails, vorder)
                before == Visited(p) \o <<Ev("probe", p, <<>>, FALSE)>>
            IN \E i \in {0} \cup CbIndexes(run.ev) :
                LET r == FailAt(run, i)
                IN IF r.err = NilErr
                   THEN Continue(Without(p) \o <<Children(p)>>, before \o r.ev)
                   ELSE Halt(before \o r.ev, r.err)

\* The visitor on an object root: the manifest is walked, the directory is
\* terminal.
VisitObject ==
    /\ pc = "fswalk"
    /\ \E p \in Pending :
        /\ disk.kind[p] = "obj"
        /\ \E loadFails \in BOOLEAN, vorder \in Perms(VersionSet(scope, disk.inv[p])) :
            LET run == walkObject(scope, p, disk.inv[p], loadFails, vorder)
                before == Visited(p) \o <<Ev("probe", p, <<>>, FALSE)>>
            IN \E i \in {0} \cup CbIndexes(run.ev) :
                LET r == FailAt(run, i)
                IN IF r.err = NilErr
                   THEN Continue(Without(p), before \o r.ev)
                   ELSE Halt(before \o r.ev, r.err)

\* The visitor without the test that skips the storage root.
VisitDirectory_ReportsRoot ==
    /\ pc = "fswalk"
    /\ \E p \in Pending :
        /\ disk.kind[p] = "dir"
        /\ LET run == [ev |-> IF contains(scope, EntityRef(<<>>, <<>>, Intermediate, <<>>))
                              THEN <<CbEv(EntityRef(TrimPrefix(p, scope.root.Addr), p,
                                                    Intermediate, <<scope.root>>))>>
                              ELSE <<>>,
                       err |-> NilErr]
               before == Visited(p) \o <<Ev("probe", p, <<>>, FALSE)>>
           IN \/ \E i \in CbIndexes(run.ev) :
                    Halt(before \o FailAt(run, i).ev, FailAt(run, i).err)
              \/ Return(before \o run.ev \o <<Ev("readdir", p, <<>>, TRUE)>>,
                        Wrap(Err("readdir", p, <<>>), "error performing walk"))
              \/ Continue(Without(p) \o <<Children(p)>>,
                          before \o run.ev \o <<Ev("readdir", p, <<>>, FALSE)>>)

\* The visitor on a directory that is no object root: reported as an
\* Intermediate when in scope, then read and descended into.
VisitDirectory ==
    /\ pc = "fswalk"
    /\ \E p \in Pending :
        /\ disk.kind[p] = "dir"
        /\ LET run == [ev |-> IF p # scope.root.Addr
                                 /\ contains(scope, EntityRef(<<>>, <<>>, Intermediate, <<>>))
                              THEN <<CbEv(EntityRef(TrimPrefix(p, scope.root.Addr), p,
                                                    Intermediate, <<scope.root>>))>>
                              ELSE <<>>,
                       err |-> NilErr]
               before == Visited(p) \o <<Ev("probe", p, <<>>, FALSE)>>
           IN \/ \E i \in CbIndexes(run.ev) :
                    Halt(before \o FailAt(run, i).ev, FailAt(run, i).err)
              \/ Return(before \o run.ev \o <<Ev("readdir", p, <<>>, TRUE)>>,
                        Wrap(Err("readdir", p, <<>>), "error performing walk"))
              \/ Continue(Without(p) \o <<Children(p)>>,
                          before \o run.ev \o <<Ev("readdir", p, <<>>, FALSE)>>)

Next == WalkStart \/ VisitFile \/ VisitProbeFails \/ VisitObject \/ VisitDirectory

Spec == Init /\ [][Next]_vars

\* ------------------------------------------------------------------ what a walk reported

Calls == SelectSeq(events, LAMBDA e : e.kind = "cb")

Reported == [i \in 1..Len(Calls) |-> Calls[i].ent[1]]

ReportedSet == {Reported[i] : i \in 1..Len(Reported)}

\* No callback invocation and no collaborator failed so far.
NoFailure == \A i \in 1..Len(events) : ~events[i].failed

Completed == pc = "done" /\ result = NilErr /\ NoFailure

\* The entities the storage holds, read off the directory tree and the
\* manifests.
ObjectNodes(d) == {n \in Nodes : d.kind[n] = "obj" /\ Reachable(d, n)}

ObjectAt(d, n) == EntityRef(d.inv[n].ID, n, Object, <<RootRef>>)

VersionAt(d, n, v) == EntityRef(v, n \o v, Version, <<ObjectAt(d, n)>>)

FilesAt(d, n, v) ==
    {EntityRef(d.inv[n].files[v][j].LogicalPath,
               n \o d.inv[n].files[v][j].PhysicalPath, File, <<VersionAt(d, n, v)>>) :
        j \in 1..Len(d.inv[n].files[v])}

StoredObjects(d) == {ObjectAt(d, n) : n \in ObjectNodes(d)}

StoredVersions(d) ==
    UNION {{VersionAt(d, n, v) : v \in d.inv[n].Versions} : n \in ObjectNodes(d)}

StoredFiles(d) ==
    UNION {UNION {FilesAt(d, n, v) : v \in d.inv[n].Versions} : n \in ObjectNodes(d)}

StoredIntermediates(d) == IntermediateRefs(d)

StoredOfType(d, t) ==
    CASE t = Object -> StoredObjects(d)
      [] t = Version -> StoredVersions(d)
      [] t = File -> StoredFiles(d)
      [] t = Intermediate -> StoredIntermediates(d)
      [] t = Root -> {RootRef}
      [] OTHER -> {RootRef} \cup StoredIntermediates(d) \cup StoredObjects(d)
                    \cup StoredVersions(d) \cup StoredFiles(d)

FromRoot == scope.startFrom.Type = Root

\* ------------------------------------------------------------------ claims

\* C1: in a walk whose desired type T is not Any, every entity passed to
\* the callback has type T, whatever the type of the entry point.
C1_OnlyDesiredType ==
    scope.desired.Type # Any =>
        \A i \in 1..Len(Reported) : Reported[i].Type = scope.desired.Type

\* C2: a completed walk from the storage root for Object, Version or File
\* invoked the callback exactly once for each stored entity of that type
\* and for nothing else.
C2_RootWalkEnumeratesType ==
    (Completed /\ FromRoot /\ scope.desired.Type \in {Object, Version, File}) =>
        /\ ReportedSet = StoredOfType(disk, scope.desired.Type)
        /\ Len(Reported) = Cardinality(ReportedSet)

C2_Witness ==
    /\ Completed /\ FromRoot /\ scope.desired.Type = File
    /\ Cardinality(ObjectNodes(disk)) = 2
    /\ \E i, j \in 1..Len(Reported) :
        /\ Reported[i].ID = Reported[j].ID
        /\ Reported[i].Parent[1].Parent = Reported[j].Parent[1].Parent
        /\ Reported[i].Parent[1].ID # Reported[j].Parent[1].ID

\* C3: a completed walk from the storage root for Any passed the root,
\* every intermediate directory, every object, every version and every
\* file to the callback, each exactly once.
C3_RootWalkAnyEnumeratesAll ==
    (Completed /\ FromRoot /\ scope.desired.Type = Any) =>
        /\ ReportedSet = StoredOfType(disk, Any)
        /\ Len(Reported) = Cardinality(ReportedSet)

C3_Witness ==
    /\ Completed /\ FromRoot /\ scope.desired.Type = Any
    /\ \E i, j, k, l, m \in 1..Len(Reported) :
        /\ Reported[i].Type = Root
        /\ Reported[j].Type = Intermediate
        /\ Reported[k].Type = Object
        /\ Reported[l].Type = Version
        /\ Reported[m].Type = File

\* The object the entry point names, and the manifest of that object.
EntryObject == findRoot(scope.startFrom, Object)[1]

EntryInventory ==
    disk.inv[CHOOSE n \in ObjectNodes(disk) : disk.inv[n].ID = EntryObject.ID]

\* C4: a walk for File whose entry point is a File with the coordinates of
\* a stored (enumerable) file passes exactly one entity to the callback, a
\* File with those coordinates.
C4_CoordinateRoundTrip ==
    (/\ pc = "done" /\ NoFailure
     /\ scope.startFrom.Type = File /\ scope.desired.Type = File
     /\ Coords(scope.startFrom) \in {Coords(f) : f \in StoredFiles(disk)}) =>
        /\ Len(Reported) = 1
        /\ Reported[1].Type = File
        /\ Coords(Reported[1]) = Coords(scope.startFrom)

\* C5: a walk for File whose entry point is a Version v reports only Files
\* whose Parent is v, and a completed one reports every file of v.
C5_NarrowingToVersion ==
    (scope.startFrom.Type = Version /\ scope.desired.Type = File) =>
        /\ \A i \in 1..Len(Reported) :
            /\ Reported[i].Type = File
            /\ Coords(Reported[i].Parent[1]) = Coords(scope.startFrom)
        /\ Completed =>
            \A f \in StoredFiles(disk) :
                Coords(f.Parent[1]) = Coords(scope.startFrom) => f \in ReportedSet

\* C6: a walk whose entry point is a Version, or a File of a version,
\* absent from the manifest of the existing object returns the error naming
\* the version and the object, for every desired type, and the callback was
\* not invoked.
C6_MissingVersionFails ==
    (/\ pc = "done" /\ NoFailure
     /\ scope.startFrom.Type \in {Version, File}
     /\ scopeVersion(scope).ID \notin EntryInventory.Versions) =>
        /\ result.kind = "NoVersion"
        /\ result.a = scopeVersion(scope).ID
        /\ result.b = EntryObject.ID
        /\ Calls = <<>>

\* C7: a walk from the storage root for Root invokes the callback exactly
\* once, with the storage root, before anything else the walk does.
C7_RootReportedOnceFirst ==
    (FromRoot /\ scope.desired.Type = Root) =>
        /\ pc = "start" => events = <<>>
        /\ pc # "start" =>
            /\ Len(Calls) = 1
            /\ events[1].kind = "cb"
            /\ Reported[1] = RootRef

C7_Witness ==
    /\ FromRoot /\ scope.desired.Type = Root /\ Completed
    /\ \E i, j, k \in 2..Len(events) :
        /\ events[i].kind = "readdir" /\ events[i].path = NodeA
        /\ events[j].kind = "load"
        /\ events[k].kind = "visit" /\ disk.kind[events[k].path] = "file"

\* C8: a walk whose desired type is the type of its entry point passes at
\* most one entity to the callback, the entry point itself.
C8_SingleResolution ==
    scope.startFrom.Type = scope.desired.Type =>
        /\ Len(Reported) <= 1
        /\ \A i \in 1..Len(Reported) :
            /\ Reported[i].Type = scope.startFrom.Type
            /\ Coords(Reported[i]) = Coords(scope.startFrom)

\* C9: a callback invocation that returned an error is the last thing the
\* walk did and the walk returned an error; and the walk returns an error
\* only when something failed, never for a skipped subtree.
C9_FirstCallbackErrorStops ==
    /\ \A i \in 1..Len(events) :
        (events[i].kind = "cb" /\ events[i].failed) =>
            (i = Len(events) /\ pc = "done" /\ result # NilErr)
    /\ (pc = "done" /\ result # NilErr) =>
        (events[Len(events)].failed \/ result.kind = "NoVersion")

C9_Witness ==
    /\ pc = "done" /\ result # NilErr /\ FromRoot
    /\ Cardinality(ObjectNodes(disk)) = 2
    /\ Cardinality({i \in 1..Len(events) : events[i].kind = "load"}) = 1
    /\ Len(Calls) >= 2
    /\ Calls[Len(Calls)].failed
    /\ Reported[Len(Calls)].Type = Version

\* C10: a walk in which the object probe, a manifest load, a file listing
\* or a directory read failed returns an error.
C10_CollaboratorFailureIsFatal ==
    (/\ pc = "done"
     /\ \E i \in 1..Len(events) :
            events[i].failed /\ events[i].kind \in {"probe", "load", "list", "readdir"}) =>
        result # NilErr

\* The last callback invocation returned an error.
CallbackFailed == Calls # <<>> /\ Calls[Len(Calls)].failed

\* errors.Cause: the error without what was wrapped around it.
Cause(err) == [err EXCEPT !.wraps = <<>>]

\* C11 (as claimed): when the callback returns error e, walk returns
\* exactly e, unwrapped, whichever entity was being reported.
C11_CallbackErrorVerbatim ==
    (pc = "done" /\ CallbackFailed) => result = CallbackErr

\* C11 (amended): when the callback returns error e, walk returns e itself
\* for the root reported before descent, and for every other entity e
\* wrapped by fsWalk and then by walk, with e as the cause.
C11_CallbackErrorIsCause ==
    (pc = "done" /\ CallbackFailed) =>
        /\ Cause(result) = CallbackErr
        /\ result.wraps =
            IF Reported[Len(Reported)].Type = Root
            THEN <<>>
            ELSE <<"error performing walk", "terminating walk due to error">>

C11_Witness ==
    /\ pc = "done" /\ CallbackFailed
    /\ Reported[Len(Reported)].Type = File
    /\ Len(result.wraps) = 2
    /\ Cause(result) = CallbackErr

\* C12: every entity passed to the callback lies under the entry point; for
\* an entry point that is an Object, Version or File of object X every
\* reported Object, Version and File belongs to X, also when the entry
\* carries no physical address, and no sibling object makes the walk fail.
C12_BoundedScope ==
    /\ scope.startFrom.Type = Intermediate =>
        \A i \in 1..Len(Reported) : IsPrefix(scope.startFrom.Addr, Reported[i].Addr)
    /\ scope.startFrom.Type \in {Object, Version, File} =>
        /\ \A i \in 1..Len(Reported) :
            Reported[i].Type \in {Object, Version, File} =>
                Coords(Reported[i])[1] = EntryObject.ID
        /\ result.kind = "NoVersion" => result.b = EntryObject.ID

\* The types met when following Parent links from e, e included.
RECURSIVE ChainTypes(_)
ChainTypes(e) ==
    IF e.Parent = <<>> THEN <<e.Type>>
    ELSE <<e.Type>> \o ChainTypes(e.Parent[1])

\* C13: the Parent chain of every entity passed to the callback ends at a
\* Root with nil Parent without passing through an Intermediate, has 1 link
\* for an Object or Intermediate, 2 for a Version and 3 for a File, and
\* Coords is {objectID}, {objectID, versionID}, {objectID, versionID,
\* logicalPath} in root-to-leaf order, and empty for the Root.
C13_ParentChain ==
    \A i \in 1..Len(Reported) :
        LET e == Reported[i]
        IN CASE e.Type = Root ->
                  ChainTypes(e) = <<Root>> /\ Coords(e) = <<>>
             [] e.Type = Intermediate ->
                  ChainTypes(e) = <<Intermediate, Root>>
             [] e.Type = Object ->
                  /\ ChainTypes(e) = <<Object, Root>>
                  /\ Coords(e) = <<e.ID>>
                  /\ e.ID \in {disk.inv[n].ID : n \in ObjectNodes(disk)}
             [] e.Type = Version ->
                  /\ ChainTypes(e) = <<Version, Object, Root>>
                  /\ Coords(e) = <<e.Parent[1].ID, e.ID>>
                  /\ e.ID \in VersionIDs
             [] e.Type = File ->
                  /\ ChainTypes(e) = <<File, Version, Object, Root>>
                  /\ Coords(e) = <<e.Parent[1].Parent[1].ID, e.Parent[1].ID, e.ID>>
                  /\ e.ID \in LogicalPaths
             [] OTHER -> FALSE

C13_Witness ==
    /\ pc = "done"
    /\ \E i, j, k \in 1..Len(Reported) :
        /\ Coords(Reported[i]) = <<<<"C">>, <<"v2">>, <<"q">>>>
        /\ Coords(Reported[j]) = <<<<"C">>, <<"v2">>>>
        /\ Coords(Reported[k]) = <<<<"C">>>>
    /\ Reported[1].Type = Root

\* Some directory strictly above path n is an object root.
InsideObject(n) ==
    \E m \in Nodes : IsPrefix(m, n) /\ m # n /\ disk.kind[m] = "obj"

\* The path the directory descent of this walk started at.
StartPaths == {events[i].path : i \in {j \in 1..Len(events) : events[j].kind = "stat"}}

\* The entries the descent has to reach: at or below the start path, with
\* only plain directories between the start path and them.
ToVisit ==
    {n \in Nodes :
        \E sp \in StartPaths :
            /\ IsPrefix(sp, n)
            /\ \A m \in Nodes : (IsPrefix(sp, m) /\ IsPrefix(m, n) /\ m # n) =>
                                    disk.kind[m] = "dir"}

EventsAt(kind, n) == {i \in 1..Len(events) : events[i].kind = kind /\ events[i].path = n}

\* C14: nothing beneath an object root is visited, probed, read or
\* reported by directory descent; a completed walk visited every entry
\* outside the objects, probing every directory among them; and a visit of
\* a regular file or of an object never ends the walk by itself.
C14_StopSubtreeIsNotAbort ==
    /\ \A i \in 1..Len(events) :
        events[i].kind \in {"visit", "probe", "readdir", "load"} =>
            ~InsideObject(events[i].path)
    /\ \A i \in 1..Len(Reported) :
        Reported[i].Type \in {Intermediate, Object} => ~InsideObject(Reported[i].Addr)
    /\ Completed =>
        \A n \in ToVisit :
            /\ Cardinality(EventsAt("visit", n)) = 1
            /\ disk.kind[n] # "file" => Cardinality(EventsAt("probe", n)) = 1
            /\ disk.kind[n] = "file" => EventsAt("probe", n) = {}
    /\ (pc = "done" /\ NoFailure /\ result.kind # "NoVersion") => result = NilErr

C14_Witness ==
    /\ Completed /\ FromRoot
    /\ disk.kind[NodeA] = "obj" /\ disk.kind[NodeB] = "obj"
    /\ \E i \in EventsAt("load", NodeA), j \in EventsAt("probe", NodeB) : i < j
    /\ EventsAt("visit", NodeC) = {}

IntermediateInScope == scope.desired.Type \in {Intermediate, Any}

ReportedAs(t, n) ==
    {i \in 1..Len(Reported) : Reported[i].Type = t /\ Reported[i].Addr = n}

\* C15: in a walk with Intermediate entities in scope, every directory the
\* descent reaches that is neither an object root nor the storage root is
\* reported exactly once, as an Intermediate with the storage root as
\* Parent, the directory path as Addr and the root-relative path as ID; the
\* storage root is never reported as an Intermediate, and no directory is
\* reported both as an Intermediate and as an Object.
C15_IntermediatesReported ==
    IntermediateInScope =>
        /\ \A i \in 1..Len(Reported) :
            Reported[i].Type = Intermediate =>
                /\ Reported[i].Addr # RootAddr
                /\ disk.kind[Reported[i].Addr] = "dir"
                /\ Reported[i].Parent = <<RootRef>>
                /\ Reported[i].ID # <<>>
                /\ RootAddr \o Reported[i].ID = Reported[i].Addr
                /\ ReportedAs(Intermediate, Reported[i].Addr) = {i}
                /\ ReportedAs(Object, Reported[i].Addr) = {}
        /\ Completed =>
            \A n \in ToVisit :
                (disk.kind[n] = "dir" /\ n # RootAddr) =>
                    Cardinality(ReportedAs(Intermediate, n)) = 1

C15_Witness ==
    /\ IntermediateInScope /\ Completed /\ FromRoot
    /\ disk.kind[NodeA] = "dir" /\ disk.kind[NodeC] = "dir" /\ disk.kind[NodeB] = "obj"
    /\ \E i \in ReportedAs(Intermediate, NodeC) : Reported[i].ID = <<"a", "c">>
    /\ ReportedAs(Intermediate, NodeA) # {}
    /\ EventsAt("probe", RootAddr) # {}

InManifest(e) == e.Type \in {File, Version, Object}

ObjectOf(e) == findRoot(e, Object)[1]

VersionOf(e) == findRoot(e, Version)[1]

\* C16: the storage root, when reported, is reported first; an entity is
\* reported after its Parent (and in a walk for Any the Parent of every
\* Version and File has been reported); the entities of one version, and
\* those of one object, are reported without any other entity in between.
C16_HierarchyOrder ==
    LET R == Reported
        n == Len(R)
        inM == [i \in 1..n |-> InManifest(R[i])]
        obj == [i \in 1..n |-> IF inM[i] THEN ObjectOf(R[i]) ELSE R[i]]
        ver == [i \in 1..n |-> IF R[i].Type \in {File, Version}
                               THEN <<VersionOf(R[i])>> ELSE <<>>]
    IN  /\ \A i \in 1..n : R[i].Type = Root => i = 1
        /\ \A j \in 1..n :
            R[j].Type \in {File, Version} =>
                /\ \A i \in 1..n : R[i] = R[j].Parent[1] => i < j
                /\ scope.desired.Type = Any =>
                    \E i \in 1..(j - 1) : R[i] = R[j].Parent[1]
        /\ \A i, j \in 1..n :
            (i < j /\ inM[i] /\ inM[j] /\ obj[i] = obj[j]) =>
                \A k \in i..j :
                    /\ inM[k]
                    /\ obj[k] = obj[i]
                    /\ (ver[i] # <<>> /\ ver[i] = ver[j]) => ver[k] = ver[i]

C16_Witness ==
    /\ Completed /\ FromRoot /\ scope.desired.Type = Any
    /\ Cardinality(ObjectNodes(disk)) = 2
    /\ Len(Reported) >= 10
    /\ \E i, j \in 1..Len(Reported) :
        /\ i < j
        /\ Reported[i].Type = File /\ Reported[j].Type = File
        /\ Reported[i].Parent = Reported[j].Parent

\* ------------------------------------------------------------------ resolv.Init

\* Number of drivers a configuration may name.
MaxDrivers == 3

DriverNames == <<"d1", "d2", "d3", "d4">>

\* The Root entity driver d resolves the configured root to.
DriverRoot(d, root) == EntityRef(<<>>, <<DriverNames[d]>> \o root, Root, <<>>)

\* What a driver's Walk for Root does: the entities it passes to the
\* callback, then whether it returns an error.
DriverWalks(d, root) ==
    [passes : {<<>>, <<DriverRoot(d, root)>>}, fails : BOOLEAN]

Configs ==
    UNION {{[Root |-> root, Drivers |-> ds] :
                ds \in {f \in [1..n -> UNION {DriverWalks(d, root) : d \in 1..n}] :
                            \A d \in 1..n : f[d] \in DriverWalks(d, root)}} :
            n \in 0..MaxDrivers, root \in {<<>>, RootAddr}}

\* The state in which Init is called with configuration c.
InitCxt ==
    /\ disk = CHOOSE d \in Disks : TRUE
    /\ scope = newScope(RootRef, Root)
    /\ pc = "done"
    /\ stack = <<>>
    /\ events = <<>>
    /\ result = NilErr
    /\ \E c \in Configs : cfg = c
    /\ cxtRoot = <<>>
    /\ ipc = "init"
    /\ idx = 1
    /\ returned = [cxt |-> FALSE, err |-> NilErr]
    /\ invoked = <<>>

\* The callback of Init on the entities a driver passes: cxt.root = &r.
SetRoot(root, passes) ==
    IF passes = <<>> THEN root ELSE <<passes[Len(passes)]>>

\* One iteration of the loop of Init: the next driver walks; on an error
\* the loop continues, otherwise Init returns the context.
TryDriver ==
    /\ ipc = "init"
    /\ cfg.Root # <<>>
    /\ idx <= Len(cfg.Drivers)
    /\ invoked' = Append(invoked, idx)
    /\ cxtRoot' = SetRoot(cxtRoot, cfg.Drivers[idx].passes)
    /\ IF cfg.Drivers[idx].fails
       THEN /\ idx' = idx + 1
            /\ UNCHANGED <<ipc, returned>>
       ELSE /\ ipc' = "returned"
            /\ returned' = [cxt |-> TRUE, err |-> NilErr]
            /\ UNCHANGED idx
    /\ UNCHANGED <<cfg, walkVars>>

\* The root is empty or no driver is left: Init returns nil and the error.
NoDriver ==
    /\ ipc = "init"
    /\ cfg.Root = <<>> \/ idx > Len(cfg.Drivers)
    /\ ipc' = "returned"
    /\ returned' = [cxt |-> FALSE, err |-> Err("No suitable driver found", <<>>, <<>>)]
    /\ UNCHANGED <<cfg, cxtRoot, idx, invoked, walkVars>>

NextCxt == TryDriver \/ NoDriver

SpecInit == InitCxt /\ [][NextCxt]_vars

Succeeding == {d \in 1..Len(cfg.Drivers) : ~cfg.Drivers[d].fails}

FirstSucceeding == CHOOSE d \in Succeeding : \A e \in Succeeding : d <= e

\* Init returned a context and no error.
InitSucceeded == ipc = "returned" /\ returned.cxt /\ returned.err = NilErr

\* What Init returns and which drivers it invokes.
InitOutcome ==
    ipc = "returned" =>
        /\ InitSucceeded <=> (cfg.Root # <<>> /\ Succeeding # {})
        /\ ~InitSucceeded =>
            /\ ~returned.cxt
            /\ returned.err = Err("No suitable driver found", <<>>, <<>>)
        /\ invoked = IF cfg.Root = <<>> THEN <<>>
                     ELSE IF Succeeding = {} THEN [d \in 1..Len(cfg.Drivers) |-> d]
                     ELSE [d \in 1..FirstSucceeding |-> d]

\* C17: Init returns a context and no error iff the root is non-empty and
\* some driver's walk for Root returns nil, otherwise nil and "No suitable
\* driver found"; the drivers are tried in order up to the first that
\* succeeds; and the root of a returned context is the entity the driver
\* that succeeded passed to the callback.
C17_InitPicksFirstDriver ==
    /\ InitOutcome
    /\ InitSucceeded =>
        /\ cxtRoot # <<>>
        /\ \E i \in 1..Len(cfg.Drivers[FirstSucceeding].passes) :
            cxtRoot[1] = cfg.Drivers[FirstSucceeding].passes[i]

====
